---- MODULE Spec2Model ----
(***************************************************************************)
(* TemplateSet of pongo2 (template_sets.go): the sandbox latch and ban     *)
(* sets, the FromCache template cache with its mutex, FromString/FromFile  *)
(* and resolveFilename, run by concurrent goroutines.                      *)
(*                                                                         *)
(* A path is a sequence of path components; "" is the empty sequence.      *)
(* A goroutine's position in a call is call[t].pc, and call[t] keeps the   *)
(* arguments and results of its last call until it starts the next one.    *)
(* A step of a goroutine is one access to the set's shared fields, joined  *)
(* with the accesses next to it that no other goroutine's step can tell    *)
(* apart (reads of constants, loader calls, accesses made with             *)
(* templateCacheMutex held).  The latch and the ban maps are read and      *)
(* written without a lock; the steps interleave in every order, each read  *)
(* seeing the last write.                                                  *)
(*                                                                         *)
(* The loader is an input: one of LoaderKinds, over a storage that does    *)
(* not change during a run.  RenderTemplateString and RenderTemplateFile   *)
(* (lines 184-206) are FromString and FromFile followed by Execute and are *)
(* not modelled apart from them.                                           *)
(***************************************************************************)
EXTENDS Integers, Sequences, FiniteSets, TLC

\* Bound of the model: the number of templates built in one run.
MaxTemplates == 2

\* The goroutines calling into the set: two, so that every pair of calls
\* interleaves.
Threads == { 1, 2 }

\* ---------------------------------------------------------------- values

Empty == << >>                     \* the Go string ""
Nil == 0                           \* a nil *Template
Free == 0                          \* templateCacheMutex not held

\* File names callers pass: two spellings of one file and a second file.
Filenames == { <<"a">>, <<"/", "a">> }

\* Names handed to BanTag / BanFilter; "nope" is in no registry.
TagNames == { "ssi", "nope" }
FilterNames == { "safe", "nope" }

\* Names a template's tags ask resolveFilename for.
RequestNames == { <<"b">> }

\* Template sources FromString is given.
Sources == { "good", "malformed" }

\* What the loader holds under a file name (by its last component).
Status == { "good", "missing", "unreadable", "malformed" }
Leaves == { "a" }
LoaderKinds == { "local", "prefix" }

NoErr == [Msg |-> "", Filename |-> Empty, Sender |-> ""]

VARIABLES
    loader,               \* set.loader: the kind of TemplateLoader
    files,                \* what the loader's storage holds
    Debug,                \* set.Debug
    firstTemplateCreated, \* set.firstTemplateCreated
    bannedTags,           \* set.bannedTags (its keys)
    bannedFilters,        \* set.bannedFilters (its keys)
    templateCache,        \* set.templateCache: path -> template reference
    templateCacheMutex,   \* Free or the goroutine holding the mutex
    templates,            \* the heap of *Template values created so far
    call,                 \* per goroutine: the call it runs or last ran
    successReturned       \* some From* call has returned a template

vars == << loader, files, Debug, firstTemplateCreated, bannedTags, bannedFilters,
           templateCache, templateCacheMutex, templates, call, successReturned >>

\* ---------------------------------------------------------------- registries

\* The global registries of tags and filters.
tags == { "ssi" }
filters == { "safe" }

\* ---------------------------------------------------------------- loader

IsAbs(name) == Len(name) > 0 /\ name[1] = "/"
Dir(p) == IF Len(p) = 0 THEN Empty ELSE SubSeq(p, 1, Len(p) - 1)

\* TemplateLoader.Abs. "local": a file system loader with no base directory
\* (absolute names pass, others are joined to the directory of base, or to
\* the root when base is ""). "prefix": a loader that roots every name under
\* its own directory "r", whatever the base.
Abs(base, name) ==
    IF loader = "local"
    THEN IF IsAbs(name) THEN name
         ELSE IF base = Empty THEN <<"/">> \o name
         ELSE Dir(base) \o name
    ELSE <<"r">> \o name

\* TemplateLoader.Get followed by the read and the parse: what the storage
\* holds under path.
Get(path) == IF Len(path) = 0 THEN "missing" ELSE files[path[Len(path)]]

\* ---------------------------------------------------------------- templates

\* newTemplate(set, name, isTplString, buf): the Template value.
\* src is the path the bytes were fetched from; by is "FromCache" when the
\* template was built for the cache (line 136), else the function called.
newTemplate(name, isTplString, src, by) ==
    [name |-> name, isTplString |-> isTplString, src |-> src, by |-> by]

StringName == <<"<string>">>

\* Mutant of resolveFilename: a string-origin template resolves through the
\* loader with an empty base, like a nil template.
resolveFilenameThroughLoader(tpl, path) ==
    LET name == IF tpl # Nil /\ ~templates[tpl].isTplString
                THEN templates[tpl].name ELSE Empty
    IN  [result |-> Abs(name, path), absCalls |-> << <<name, path>> >>]

\* Mutant of resolveFilename: with Debug set a name is taken as it is given.
resolveFilenameUnlessDebug(tpl, path) ==
    IF Debug \/ (tpl # Nil /\ templates[tpl].isTplString)
    THEN [result |-> path, absCalls |-> << >>]
    ELSE LET name == IF tpl # Nil THEN templates[tpl].name ELSE Empty
         IN  [result |-> Abs(name, path), absCalls |-> << <<name, path>> >>]

\* resolveFilename(tpl, path), lines 67-76: the result and the loader calls
\* it made, each as <<base, name>>.
resolveFilename(tpl, path) ==
    IF tpl # Nil /\ templates[tpl].isTplString
    THEN [result |-> path, absCalls |-> << >>]
    ELSE LET name == IF tpl # Nil THEN templates[tpl].name ELSE Empty
         IN  [result |-> Abs(name, path), absCalls |-> << <<name, path>> >>]

\* ---------------------------------------------------------------- calls

\* A goroutine's frame. tpl/err are the call's results once pc is "idle".
NoCall ==
    [pc |-> "idle", op |-> "none", name |-> "", filename |-> Empty,
     debug |-> FALSE, cleanedFilename |-> Empty, ffFilename |-> Empty,
     tplArg |-> Nil, resolved |-> Empty, tpl |-> Nil, err |-> NoErr,
     fetched |-> << >>, absCalls |-> << >>]

Idle(t) == call[t].pc = "idle"

CompileOps == { "FromString", "FromFile", "FromCache" }
InFlight == Cardinality({ t \in Threads : call[t].pc # "idle" /\ call[t].op \in CompileOps })
\* Bound of the model: room on the heap for one more template.
Room == Len(templates) + InFlight < MaxTemplates

Init ==
    /\ loader \in LoaderKinds
    /\ files \in [Leaves -> Status]
    /\ Debug = FALSE
    /\ firstTemplateCreated = FALSE
    /\ bannedTags = {}
    /\ bannedFilters = {}
    /\ templateCache = << >>
    /\ templateCacheMutex = Free
    /\ templates = << >>
    /\ call = [t \in Threads |-> NoCall]
    /\ successReturned = FALSE

\* Mutant of SetDebug: switching Debug empties the cache.
SetDebugClearsCache ==
    /\ Debug' = ~Debug
    /\ templateCache' = << >>
    /\ UNCHANGED << loader, files, firstTemplateCreated, bannedTags, bannedFilters,
                    templateCacheMutex, templates, call, successReturned >>

\* The caller sets the public field Debug.
SetDebug ==
    /\ Debug' = ~Debug
    /\ UNCHANGED << loader, files, firstTemplateCreated, bannedTags, bannedFilters,
                    templateCache, templateCacheMutex, templates, call, successReturned >>

\* ------------------------------------------------------------ BanTag/BanFilter

BanError(op, kind, name) ==
    [Msg |-> kind, Filename |-> Empty, Sender |-> op]

NotFound == "not found"
Frozen == "cannot ban after first template"
AlreadyBanned == "already banned"

\* Mutant of BanCheck: the latch is not consulted.
BanCheckNoLatch(t, op, registry, name) ==
    /\ Idle(t)
    /\ call' = [call EXCEPT ![t] =
          IF name \notin registry
          THEN [NoCall EXCEPT !.op = op, !.name = name,
                              !.err = BanError(op, NotFound, name)]
          ELSE [NoCall EXCEPT !.op = op, !.name = name, !.pc = "ban_has"]]
    /\ UNCHANGED << loader, files, Debug, firstTemplateCreated, bannedTags, bannedFilters,
                    templateCache, templateCacheMutex, templates, successReturned >>

\* Mutant of BanCheck: the latch is checked before the registry.
BanCheckLatchFirst(t, op, registry, name) ==
    /\ Idle(t)
    /\ call' = [call EXCEPT ![t] =
          IF firstTemplateCreated
          THEN [NoCall EXCEPT !.op = op, !.name = name,
                              !.err = BanError(op, Frozen, name)]
          ELSE IF name \notin registry
          THEN [NoCall EXCEPT !.op = op, !.name = name,
                              !.err = BanError(op, NotFound, name)]
          ELSE [NoCall EXCEPT !.op = op, !.name = name, !.pc = "ban_has"]]
    /\ UNCHANGED << loader, files, Debug, firstTemplateCreated, bannedTags, bannedFilters,
                    templateCache, templateCacheMutex, templates, successReturned >>

\* Lines 80-86 / 98-104: the registry lookup and the read of the latch.
BanCheck(t, op, registry, name) ==
    /\ Idle(t)
    /\ call' = [call EXCEPT ![t] =
          IF name \notin registry
          THEN [NoCall EXCEPT !.op = op, !.name = name,
                              !.err = BanError(op, NotFound, name)]
          ELSE IF firstTemplateCreated
          THEN [NoCall EXCEPT !.op = op, !.name = name,
                              !.err = BanError(op, Frozen, name)]
          ELSE [NoCall EXCEPT !.op = op, !.name = name, !.pc = "ban_has"]]
    /\ UNCHANGED << loader, files, Debug, firstTemplateCreated, bannedTags, bannedFilters,
                    templateCache, templateCacheMutex, templates, successReturned >>

BanTag(t, name) == BanCheck(t, "BanTag", tags, name)
BanFilter(t, name) == BanCheck(t, "BanFilter", filters, name)

Banned(op) == IF op = "BanTag" THEN bannedTags ELSE bannedFilters

\* Mutant of BanHas: a name already banned is banned again without an error.
BanHasNoCheck(t) ==
    /\ call[t].pc = "ban_has"
    /\ call' = [call EXCEPT ![t] = [@ EXCEPT !.pc = "ban_put"]]
    /\ UNCHANGED << loader, files, Debug, firstTemplateCreated, bannedTags, bannedFilters,
                    templateCache, templateCacheMutex, templates, successReturned >>

\* Lines 87-90 / 105-108: the lookup in the banned map.
BanHas(t) ==
    /\ call[t].pc = "ban_has"
    /\ call' = [call EXCEPT ![t] =
          IF call[t].name \in Banned(call[t].op)
          THEN [@ EXCEPT !.pc = "idle",
                         !.err = BanError(call[t].op, AlreadyBanned, call[t].name)]
          ELSE [@ EXCEPT !.pc = "ban_put"]]
    /\ UNCHANGED << loader, files, Debug, firstTemplateCreated, bannedTags, bannedFilters,
                    templateCache, templateCacheMutex, templates, successReturned >>

\* Lines 91-93 / 109-111: the insertion and the nil return.
BanPut(t) ==
    /\ call[t].pc = "ban_put"
    /\ IF call[t].op = "BanTag"
       THEN /\ bannedTags' = bannedTags \cup { call[t].name }
            /\ UNCHANGED bannedFilters
       ELSE /\ bannedFilters' = bannedFilters \cup { call[t].name }
            /\ UNCHANGED bannedTags
    /\ call' = [call EXCEPT ![t] = [@ EXCEPT !.pc = "idle"]]
    /\ UNCHANGED << loader, files, Debug, firstTemplateCreated,
                    templateCache, templateCacheMutex, templates, successReturned >>

\* ------------------------------------------------------------ FromString

\* The error the parser returns for a malformed source.
ParseError(name) == [Msg |-> "malformed", Filename |-> name, Sender |-> "parser"]

\* Line 150: the latch is set before anything is compiled.
FromString(t, source) ==
    /\ Idle(t)
    /\ Room
    /\ firstTemplateCreated' = TRUE
    /\ call' = [call EXCEPT ![t] =
          [NoCall EXCEPT !.op = "FromString", !.name = source, !.pc = "fs_compile"]]
    /\ UNCHANGED << loader, files, Debug, bannedTags, bannedFilters, templateCache,
                    templateCacheMutex, templates, successReturned >>

\* Line 152: newTemplateString(set, []byte(tpl)) and the return.
FsCompile(t) ==
    /\ call[t].pc = "fs_compile"
    /\ IF call[t].name = "malformed"
       THEN /\ call' = [call EXCEPT ![t] =
                  [@ EXCEPT !.pc = "idle", !.err = ParseError(StringName)]]
            /\ UNCHANGED << templates, successReturned >>
       ELSE /\ templates' = Append(templates,
                  newTemplate(StringName, TRUE, Empty, "FromString"))
            /\ call' = [call EXCEPT ![t] =
                  [@ EXCEPT !.pc = "idle", !.tpl = Len(templates) + 1]]
            /\ successReturned' = TRUE
    /\ UNCHANGED << loader, files, Debug, firstTemplateCreated, bannedTags, bannedFilters,
                    templateCache, templateCacheMutex >>

\* ------------------------------------------------------------ FromFile

\* Line 160, for a direct call of FromFile.
FromFile(t, filename) ==
    /\ Idle(t)
    /\ Room
    /\ firstTemplateCreated' = TRUE
    /\ call' = [call EXCEPT ![t] =
          [NoCall EXCEPT !.op = "FromFile", !.filename = filename,
                         !.ffFilename = filename, !.pc = "ff_load"]]
    /\ UNCHANGED << loader, files, Debug, bannedTags, bannedFilters, templateCache,
                    templateCacheMutex, templates, successReturned >>

\* Mutant of FromFileError: the error names the resolved path.
FromFileErrorResolved(filename, msg) ==
    [Msg |-> msg, Filename |-> Abs(Empty, filename), Sender |-> "fromfile"]

\* The Error of lines 164-168 and 172-176.
FromFileError(filename, msg) == [Msg |-> msg, Filename |-> filename, Sender |-> "fromfile"]

\* Mutant of AfterFromFile: FromCache caches whatever Debug was.
AfterFromFileAlwaysCached(t) ==
    IF call[t].op = "FromCache" THEN "fc_miss" ELSE "idle"

\* Mutant of AfterFromFile: a direct FromFile call stores its template too.
AfterFromFileStores(t) ==
    IF call[t].op = "FromFile" \/ (call[t].op = "FromCache" /\ ~call[t].debug)
    THEN "fc_miss" ELSE "idle"

\* Where FromFile returns to: FromCache's line 137 when it was called at
\* line 136, else (line 124, or a direct call) the caller.
AfterFromFile(t) ==
    IF call[t].op = "FromCache" /\ ~call[t].debug THEN "fc_miss" ELSE "idle"

\* Lines 162-179: resolve, Get, ReadAll, newTemplate, and the return.
FfLoad(t) ==
    /\ call[t].pc = "ff_load"
    /\ LET filename == call[t].ffFilename
           r == resolveFilename(Nil, filename)
           got == Get(r.result)
           by == IF AfterFromFile(t) = "fc_miss" THEN "FromCache" ELSE "FromFile"
           seen == [call[t] EXCEPT !.pc = AfterFromFile(t),
                             !.fetched = Append(@, r.result),
                             !.absCalls = @ \o r.absCalls]
       IN  IF got = "missing"
           THEN /\ call' = [call EXCEPT ![t] =
                      [seen EXCEPT !.err = FromFileError(filename, "get")]]
                /\ UNCHANGED << templates, successReturned >>
           ELSE IF got = "unreadable"
           THEN /\ call' = [call EXCEPT ![t] =
                      [seen EXCEPT !.err = FromFileError(filename, "read")]]
                /\ UNCHANGED << templates, successReturned >>
           ELSE IF got = "malformed"
           THEN /\ call' = [call EXCEPT ![t] =
                      [seen EXCEPT !.err = ParseError(filename)]]
                /\ UNCHANGED << templates, successReturned >>
           ELSE /\ templates' = Append(templates,
                      newTemplate(filename, FALSE, r.result, by))
                /\ call' = [call EXCEPT ![t] =
                      [seen EXCEPT !.tpl = Len(templates) + 1]]
                /\ successReturned' = (successReturned \/ AfterFromFile(t) = "idle")
    /\ UNCHANGED << loader, files, Debug, firstTemplateCreated, bannedTags, bannedFilters,
                    templateCache, templateCacheMutex >>

\* ------------------------------------------------------------ FromCache

\* Lines 122-127: the read of Debug and, when it is false, the resolution;
\* when it is true, the call of FromFile, which sets the latch (line 160).
FromCache(t, filename) ==
    /\ Idle(t)
    /\ \/ Room
       \/ ~Debug /\ resolveFilename(Nil, filename).result \in DOMAIN templateCache
    /\ IF Debug
       THEN /\ firstTemplateCreated' = TRUE
            /\ call' = [call EXCEPT ![t] =
                  [NoCall EXCEPT !.op = "FromCache", !.filename = filename,
                                 !.debug = TRUE, !.ffFilename = filename,
                                 !.pc = "ff_load"]]
       ELSE /\ UNCHANGED firstTemplateCreated
            /\ LET r == resolveFilename(Nil, filename)
               IN  call' = [call EXCEPT ![t] =
                     [NoCall EXCEPT !.op = "FromCache", !.filename = filename,
                                    !.cleanedFilename = r.result,
                                    !.absCalls = r.absCalls, !.pc = "fc_lock"]]
    /\ UNCHANGED << loader, files, Debug, bannedTags, bannedFilters,
                    templateCache, templateCacheMutex, templates, successReturned >>

\* Lines 132-136, run with the mutex held: the lookup and, on a miss, the
\* call of FromFile, which sets the latch (line 160).
FcLookup(t) ==
    /\ call[t].pc = "fc_lock"
    /\ templateCacheMutex' = t
    /\ IF call[t].cleanedFilename \in DOMAIN templateCache
       THEN /\ call' = [call EXCEPT ![t] =
                  [@ EXCEPT !.pc = "fc_unlock",
                            !.tpl = templateCache[call[t].cleanedFilename]]]
            /\ UNCHANGED firstTemplateCreated
       ELSE /\ call' = [call EXCEPT ![t] =
                  [@ EXCEPT !.pc = "ff_load", !.ffFilename = call[t].cleanedFilename]]
            /\ firstTemplateCreated' = TRUE
    /\ UNCHANGED << loader, files, Debug, bannedTags, bannedFilters,
                    templateCache, templates, successReturned >>

\* Mutant of FcLock: Lock does not wait for the goroutine holding the mutex.
FcLockNoWait(t) == FcLookup(t)

\* Lines 129-136: Lock blocks while another goroutine holds the mutex.
FcLock(t) ==
    /\ templateCacheMutex = Free
    /\ FcLookup(t)

\* Mutant of FcMiss: the template built on a miss is returned but not stored.
FcMissNoStore(t) ==
    /\ call[t].pc = "fc_miss"
    /\ call' = [call EXCEPT ![t] = [@ EXCEPT !.pc = "fc_unlock"]]
    /\ UNCHANGED << loader, files, Debug, firstTemplateCreated, bannedTags, bannedFilters,
                    templateCache, templateCacheMutex, templates, successReturned >>

\* Mutant of FcMiss: the outcome of a miss is stored even when it is an error.
FcMissStoreAlways(t) ==
    /\ call[t].pc = "fc_miss"
    /\ templateCache' =
          [k \in DOMAIN templateCache \cup { call[t].cleanedFilename } |->
             IF k = call[t].cleanedFilename THEN call[t].tpl ELSE templateCache[k]]
    /\ call' = [call EXCEPT ![t] = [@ EXCEPT !.pc = "fc_unlock", !.err = NoErr]]
    /\ UNCHANGED << loader, files, Debug, firstTemplateCreated, bannedTags, bannedFilters,
                    templateCacheMutex, templates, successReturned >>

\* Mutant of FcMiss: the error return leaves without the Unlock.
FcMissErrorKeepsLock(t) ==
    /\ call[t].pc = "fc_miss"
    /\ IF call[t].err # NoErr
       THEN /\ UNCHANGED templateCache
            /\ call' = [call EXCEPT ![t] = [@ EXCEPT !.pc = "idle"]]
       ELSE /\ templateCache' =
                  [k \in DOMAIN templateCache \cup { call[t].cleanedFilename } |->
                     IF k = call[t].cleanedFilename THEN call[t].tpl
                     ELSE templateCache[k]]
            /\ call' = [call EXCEPT ![t] = [@ EXCEPT !.pc = "fc_unlock"]]
    /\ UNCHANGED << loader, files, Debug, firstTemplateCreated, bannedTags, bannedFilters,
                    templateCacheMutex, templates, successReturned >>

\* Lines 137-141: on an error nothing is stored, else the template is.
FcMiss(t) ==
    /\ call[t].pc = "fc_miss"
    /\ IF call[t].err # NoErr
       THEN UNCHANGED templateCache
       ELSE templateCache' =
              [k \in DOMAIN templateCache \cup { call[t].cleanedFilename } |->
                 IF k = call[t].cleanedFilename THEN call[t].tpl ELSE templateCache[k]]
    /\ call' = [call EXCEPT ![t] = [@ EXCEPT !.pc = "fc_unlock"]]
    /\ UNCHANGED << loader, files, Debug, firstTemplateCreated, bannedTags, bannedFilters,
                    templateCacheMutex, templates, successReturned >>

\* Line 130: the deferred Unlock, run as FromCache returns.
FcUnlock(t) ==
    /\ call[t].pc = "fc_unlock"
    /\ templateCacheMutex' = Free
    /\ call' = [call EXCEPT ![t] = [@ EXCEPT !.pc = "idle"]]
    /\ successReturned' = (successReturned \/ call[t].tpl # Nil)
    /\ UNCHANGED << loader, files, Debug, firstTemplateCreated, bannedTags, bannedFilters,
                    templateCache, templates >>

\* ------------------------------------------------------------ resolveFilename

\* A tag of template tpl (include, extends, ...) resolves the name path.
ResolveIn(t, tpl, path) ==
    /\ Idle(t)
    /\ tpl \in 1..Len(templates)
    /\ LET r == resolveFilename(tpl, path)
       IN  call' = [call EXCEPT ![t] =
              [NoCall EXCEPT !.op = "resolveFilename", !.tplArg = tpl, !.filename = path,
                             !.resolved = r.result, !.absCalls = r.absCalls]]
    /\ UNCHANGED << loader, files, Debug, firstTemplateCreated, bannedTags, bannedFilters,
                    templateCache, templateCacheMutex, templates, successReturned >>

\* ------------------------------------------------------------ properties

\* A call of op that has returned.
Returned(t, op) == Idle(t) /\ call[t].op = op
\* A FromCache call that read Debug = false and has returned.
CachedCall(t) == Returned(t, "FromCache") /\ ~call[t].debug
\* A FromCache call that read Debug = true and has returned.
DebugCall(t) == Returned(t, "FromCache") /\ call[t].debug

\* C1: every FromCache caller (Debug false) that got a template for the
\* canonical path P got the one instance templateCache holds for P, so any
\* two callers for P hold the same instance, however their calls interleaved.
C1_SameCachedInstance ==
    \A t \in Threads :
        (CachedCall(t) /\ call[t].tpl # Nil)
            => /\ call[t].cleanedFilename \in DOMAIN templateCache
               /\ templateCache[call[t].cleanedFilename] = call[t].tpl
               /\ templates[call[t].tpl].name = call[t].cleanedFilename

\* Two FromCache calls, made with two spellings of one canonical path, have
\* both returned a template.
C1_Witness ==
    \E t1, t2 \in Threads :
        /\ t1 # t2
        /\ CachedCall(t1) /\ CachedCall(t2)
        /\ call[t1].filename # call[t2].filename
        /\ call[t1].cleanedFilename = call[t2].cleanedFilename
        /\ call[t1].tpl # Nil /\ call[t2].tpl # Nil

BanOps == { "BanTag", "BanFilter" }
Registry(op) == IF op = "BanTag" THEN tags ELSE filters
BanStart(t) == Idle(t) /\ call'[t] # call[t] /\ call'[t].op \in BanOps
C3_BanFreeze ==
    [][\A t \in Threads :
        /\ (BanStart(t) /\ call'[t].name \in Registry(call'[t].op))
              => IF successReturned
                 THEN /\ call'[t].pc = "idle"
                      /\ call'[t].err.Msg = Frozen
                      /\ bannedTags' = bannedTags
                      /\ bannedFilters' = bannedFilters
                 ELSE ~firstTemplateCreated => call'[t].pc = "ban_has"
        /\ (call[t].pc = "ban_has" /\ call'[t] # call[t]
               /\ call[t].name \notin Banned(call[t].op))
              => call'[t].pc = "ban_put"
        /\ (call[t].pc = "ban_put" /\ call'[t] # call[t])
              => /\ call'[t].pc = "idle"
                 /\ call'[t].err = NoErr
                 /\ call[t].name \in Banned(call[t].op)'
      ]_vars

\* A ban of "ssi" succeeded, then a template was returned, and the same ban
\* call has now failed with the frozen error.
C3_Witness ==
    /\ successReturned
    /\ bannedTags = { "ssi" }
    /\ \E t \in Threads :
          Returned(t, "BanTag") /\ call[t].name = "ssi" /\ call[t].err.Msg = Frozen

\* C4: no name is added to bannedTags or bannedFilters in a state where
\* firstTemplateCreated is already true.
C4_NoBanOnceLatched ==
    [][firstTemplateCreated =>
          (bannedTags' = bannedTags /\ bannedFilters' = bannedFilters)]_vars

\* C5: when no call is running and the latch is true, some call has produced
\* a template (a call that failed on a fresh set left the latch false).
C5_LatchOnlyAfterSuccess ==
    ((\A t \in Threads : Idle(t)) /\ firstTemplateCreated) => Len(templates) > 0

\* C6: a FromCache call (Debug false) for a path the loader cannot deliver as
\* a template fails every time, each time after asking the loader itself,
\* and leaves no cache entry for the path; a call for a path the loader
\* delivers does not fail.
C6_NoNegativeCaching ==
    \A t \in Threads :
        CachedCall(t) =>
            LET k == call[t].cleanedFilename
                fetchPath == resolveFilename(Nil, k).result
            IN  /\ (call[t].err # NoErr) <=> (Get(fetchPath) # "good")
                /\ (call[t].err # NoErr) =>
                      /\ call[t].tpl = Nil
                      /\ call[t].fetched = << fetchPath >>
                      /\ k \notin DOMAIN templateCache

\* Two FromCache calls for one path have both failed, each with its own fetch.
C6_Witness ==
    \E t1, t2 \in Threads :
        /\ t1 # t2
        /\ CachedCall(t1) /\ CachedCall(t2)
        /\ call[t1].filename = call[t2].filename
        /\ call[t1].err # NoErr /\ call[t2].err = call[t1].err
        /\ call[t1].fetched # << >> /\ call[t2].fetched # << >>

\* C7: a FromCache call that read Debug = true changes neither templateCache
\* nor templateCacheMutex in any of its steps, and returns after one loader
\* fetch of its own, with the template that very call built (never a cached
\* one) or with an error.
DebugStep(t) == call'[t] # call[t] /\ call'[t].op = "FromCache" /\ call'[t].debug
C7_DebugBypassesCache ==
    [][\A t \in Threads :
        DebugStep(t) =>
            /\ templateCache' = templateCache
            /\ templateCacheMutex' = templateCacheMutex
            /\ call'[t].pc = "idle" =>
                  /\ Len(call'[t].fetched) = 1
                  /\ call'[t].tpl # Nil =>
                        /\ Len(templates') = Len(templates) + 1
                        /\ call'[t].tpl = Len(templates')
      ]_vars

\* Two FromCache calls for one file name, both with Debug = true, returned
\* two different templates after a fetch each, and the cache is empty.
C7_Witness ==
    \E t1, t2 \in Threads :
        /\ DebugCall(t1) /\ DebugCall(t2)
        /\ call[t1].filename = call[t2].filename
        /\ call[t1].tpl # Nil /\ call[t2].tpl # Nil /\ call[t1].tpl # call[t2].tpl
        /\ Len(call[t1].fetched) = 1 /\ Len(call[t2].fetched) = 1
        /\ templateCache = << >>

\* C8: once templateCache maps a path to a template it maps that path to that
\* template in every later state.
C8_CacheWriteOnce ==
    [][\A k \in DOMAIN templateCache :
          /\ k \in DOMAIN templateCache'
          /\ templateCache'[k] = templateCache[k]]_vars

\* With Debug switched on, a FromCache call for a cached path returned a
\* fresh template and the entry cached before is still there.
C8_Witness ==
    /\ Debug
    /\ \E t \in Threads :
          /\ DebugCall(t) /\ call[t].tpl # Nil
          /\ \E k \in DOMAIN templateCache :
                /\ k = resolveFilename(Nil, call[t].filename).result
                /\ templateCache[k] # call[t].tpl

\* A resolveFilename call made for a string-origin template has returned.
StringResolve(t) ==
    Returned(t, "resolveFilename") /\ templates[call[t].tplArg].isTplString

\* C9 as stated: for a string-origin requesting template the result is the
\* loader's Abs applied to an empty base and the requested name.
C9_StringOriginThroughLoader ==
    \A t \in Threads :
        StringResolve(t) =>
            /\ call[t].resolved = Abs(Empty, call[t].filename)
            /\ call[t].absCalls = << <<Empty, call[t].filename>> >>

\* C9 amended: for a string-origin requesting template resolveFilename
\* returns the requested name unchanged and makes no loader call.
C9_StringOriginUnresolved ==
    \A t \in Threads :
        StringResolve(t) =>
            /\ call[t].resolved = call[t].filename
            /\ call[t].absCalls = << >>

\* A name has been resolved for a string-origin template.
C9_Witness == \E t \in Threads : StringResolve(t)

\* C10: resolving a name from within a template returned by FromFile(path)
\* or FromCache(path) calls the loader with base Abs("", path).
C10_IdentityIsCanonicalPath ==
    \A t1, t2 \in Threads :
        (/\ Idle(t1) /\ call[t1].op \in { "FromFile", "FromCache" }
         /\ call[t1].tpl # Nil
         /\ Returned(t2, "resolveFilename") /\ call[t2].tplArg = call[t1].tpl)
            => call[t2].absCalls =
                 << <<Abs(Empty, call[t1].filename), call[t2].filename>> >>

\* C11: while no template has been asked for, a ban of a registered name
\* that an earlier ban has put in the banned set passes the latch, fails with
\* the already-banned error and leaves both banned sets as they were.
C11_DuplicateBanRejected ==
    [][\A t \in Threads :
        /\ (/\ BanStart(t)
            /\ call'[t].name \in Registry(call'[t].op)
            /\ ~firstTemplateCreated)
              => call'[t].pc = "ban_has"
        /\ (/\ call[t].pc = "ban_has" /\ call'[t] # call[t]
            /\ call[t].name \in Banned(call[t].op))
              => /\ call'[t].pc = "idle"
                 /\ call'[t].err.Msg = AlreadyBanned
                 /\ bannedTags' = bannedTags
                 /\ bannedFilters' = bannedFilters
      ]_vars

\* On a set with no template asked for, the first ban of "ssi" succeeded and
\* the second has returned the already-banned error.
C11_Witness ==
    /\ ~firstTemplateCreated
    /\ bannedTags = { "ssi" }
    /\ \E t \in Threads :
          /\ Returned(t, "BanTag") /\ call[t].name = "ssi"
          /\ call[t].err.Msg = AlreadyBanned

\* C12: a ban of a name that is not in the registry fails with the not-found
\* error, before and after the freeze, and changes neither banned set.
C12_UnknownNameRejected ==
    [][\A t \in Threads :
        (BanStart(t) /\ call'[t].name \notin Registry(call'[t].op))
            => /\ call'[t].pc = "idle"
               /\ call'[t].err.Msg = NotFound
               /\ bannedTags' = bannedTags
               /\ bannedFilters' = bannedFilters
      ]_vars

\* After the freeze, a ban of an unregistered tag and a ban of an
\* unregistered filter have both returned the not-found error.
C12_Witness ==
    /\ firstTemplateCreated
    /\ \E t1, t2 \in Threads :
          /\ Returned(t1, "BanTag") /\ call[t1].err.Msg = NotFound
          /\ Returned(t2, "BanFilter") /\ call[t2].err.Msg = NotFound

\* C13: on a miss FromCache (Debug false) fetches at the cache key: the call
\* that fetched asked the loader for K, the path it looked up and stored
\* under, and every cached template was built from the bytes fetched at its
\* key.
C13_FetchedAtCacheKey ==
    /\ \A t \in Threads :
          (CachedCall(t) /\ call[t].fetched # << >>)
              => call[t].fetched = << call[t].cleanedFilename >>
    /\ \A k \in DOMAIN templateCache : templates[templateCache[k]].src = k

\* C14: resolveFilename changes nothing of the set, and its result for a
\* pair (requesting template or none, name) is the result every earlier run
\* for the same pair gave, whatever templateCache, the banned sets, the latch
\* and Debug were then and are now.
ResolveStep(t) == Idle(t) /\ call'[t] # call[t] /\ call'[t].op = "resolveFilename"
CacheResolveStep(t) ==
    Idle(t) /\ call'[t] # call[t] /\ call'[t].op = "FromCache" /\ ~call'[t].debug
C14_ResolutionPure ==
    [][\A t \in Threads :
        /\ ResolveStep(t) =>
              /\ UNCHANGED << loader, files, Debug, firstTemplateCreated, bannedTags,
                              bannedFilters, templateCache, templateCacheMutex,
                              templates >>
              /\ \A u \in Threads \ { t } :
                    (/\ Returned(u, "resolveFilename")
                     /\ call[u].tplArg = call'[t].tplArg
                     /\ call[u].filename = call'[t].filename)
                        => /\ call'[t].resolved = call[u].resolved
                           /\ call'[t].absCalls = call[u].absCalls
        /\ CacheResolveStep(t) =>
              /\ UNCHANGED << loader, files, Debug, firstTemplateCreated, bannedTags,
                              bannedFilters, templateCache, templateCacheMutex,
                              templates >>
              /\ \A u \in Threads \ { t } :
                    (/\ call[u].op = "FromCache" /\ ~call[u].debug
                     /\ call[u].filename = call'[t].filename)
                        => call'[t].cleanedFilename = call[u].cleanedFilename
      ]_vars

\* Two runs of resolveFilename for one path-origin template and one name
\* have returned, the later one with Debug set, a template cached and a tag
\* banned.
C14_Witness ==
    /\ Debug /\ templateCache # << >> /\ bannedTags # {}
    /\ \E t1, t2 \in Threads :
          /\ t1 # t2
          /\ Returned(t1, "resolveFilename") /\ Returned(t2, "resolveFilename")
          /\ call[t1].tplArg = call[t2].tplArg
          /\ call[t1].filename = call[t2].filename
          /\ ~templates[call[t1].tplArg].isTplString
          /\ call[t1].resolved = call[t2].resolved

\* C15: the mutex is held exactly by a FromCache call between its Lock and
\* its return (so it is free whenever no FromCache call is in progress, also
\* after a call that failed), and under fair scheduling every FromCache call
\* returns.
InLockedSection(t) ==
    /\ call[t].op = "FromCache" /\ ~call[t].debug
    /\ call[t].pc \in { "ff_load", "fc_miss", "fc_unlock" }
InFromCache(t) == call[t].op = "FromCache" /\ ~Idle(t)
MutexHeldByCaller ==
    /\ \A t \in Threads : (templateCacheMutex = t) <=> InLockedSection(t)
    /\ (\A t \in Threads : ~InFromCache(t)) => templateCacheMutex = Free
C15_MutexReleased ==
    /\ []MutexHeldByCaller
    /\ \A t \in Threads : InFromCache(t) ~> Idle(t)

\* A FromCache call has failed and returned, the other goroutine's FromCache
\* call, which waited for the mutex, has returned too, and the mutex is free.
C15_Witness ==
    /\ templateCacheMutex = Free
    /\ \E t1, t2 \in Threads :
          /\ t1 # t2
          /\ CachedCall(t1) /\ call[t1].err # NoErr
          /\ CachedCall(t2) /\ call[t2].fetched # << >>

\* C16: no step of a FromString call or of a direct FromFile call changes
\* templateCache or templateCacheMutex, the template such a call returns is
\* the one it built itself (never a cached one), and a FromString call
\* returns without a loader call (no Abs, no Get).
DirectStep(t) == call'[t] # call[t] /\ call'[t].op \in { "FromString", "FromFile" }
C16_DirectCallsLeaveCache ==
    [][\A t \in Threads :
        DirectStep(t) =>
            /\ templateCache' = templateCache
            /\ templateCacheMutex' = templateCacheMutex
            /\ call'[t].pc = "idle" =>
                  /\ call'[t].op = "FromString" =>
                        (call'[t].fetched = << >> /\ call'[t].absCalls = << >>)
                  /\ call'[t].tpl # Nil =>
                        /\ Len(templates') = Len(templates) + 1
                        /\ call'[t].tpl = Len(templates')
      ]_vars

\* A FromString call and a FromFile call have each returned a template, and
\* the cache is empty and the mutex free.
C16_Witness ==
    /\ templateCache = << >> /\ templateCacheMutex = Free
    /\ \E t1, t2 \in Threads :
          /\ Returned(t1, "FromString") /\ call[t1].tpl # Nil
          /\ Returned(t2, "FromFile") /\ call[t2].tpl # Nil

\* C17: when the loader's Get or the read fails, FromFile (called directly,
\* or by FromCache with Debug set) returns no template and an Error whose
\* Filename is the file name as the caller passed it and whose Sender is
\* "fromfile"; a failed FromCache call with Debug false returns the Error
\* with Filename Abs("", path), the path it handed to FromFile.
FetchFails(path) ==
    Get(resolveFilename(Nil, path).result) \in { "missing", "unreadable" }
C17_ErrorNamesFilename ==
    \A t \in Threads :
        /\ ((Returned(t, "FromFile") \/ DebugCall(t)) /\ FetchFails(call[t].filename))
              => /\ call[t].tpl = Nil
                 /\ call[t].err.Filename = call[t].filename
                 /\ call[t].err.Sender = "fromfile"
        /\ (CachedCall(t) /\ FetchFails(call[t].cleanedFilename))
              => /\ call[t].tpl = Nil
                 /\ call[t].err.Filename = Abs(Empty, call[t].filename)
                 /\ call[t].err.Sender = "fromfile"

\* A FromFile call and a FromCache call (Debug false) for the relative name
\* "a" have both failed at the fetch: one error names "a", the other the
\* resolved path.
C17_Witness ==
    \E t1, t2 \in Threads :
        /\ Returned(t1, "FromFile") /\ CachedCall(t2)
        /\ call[t1].filename = <<"a">> /\ call[t2].filename = <<"a">>
        /\ call[t1].err.Sender = "fromfile" /\ call[t2].err.Sender = "fromfile"
        /\ call[t1].err.Filename = <<"a">>
        /\ call[t2].err.Filename # <<"a">>

Next ==
    \/ SetDebug
    \/ \E t \in Threads, name \in TagNames : BanTag(t, name)
    \/ \E t \in Threads, name \in FilterNames : BanFilter(t, name)
    \/ \E t \in Threads : BanHas(t)
    \/ \E t \in Threads : BanPut(t)
    \/ \E t \in Threads, source \in Sources : FromString(t, source)
    \/ \E t \in Threads : FsCompile(t)
    \/ \E t \in Threads, filename \in Filenames : FromFile(t, filename)
    \/ \E t \in Threads : FfLoad(t)
    \/ \E t \in Threads, filename \in Filenames : FromCache(t, filename)
    \/ \E t \in Threads : FcLock(t)
    \/ \E t \in Threads : FcMiss(t)
    \/ \E t \in Threads : FcUnlock(t)
    \/ \E t \in Threads, tpl \in 1..MaxTemplates, path \in RequestNames : ResolveIn(t, tpl, path)

Spec == Init /\ [][Next]_vars

\* The calls that fetch and compile from a path, and the caller's writes of
\* Debug: the steps that read or write templateCache and templateCacheMutex
\* or share FromFile with the ones that do.
CacheNext ==
    \/ SetDebug
    \/ \E t \in Threads, filename \in Filenames : FromFile(t, filename)
    \/ \E t \in Threads : FfLoad(t)
    \/ \E t \in Threads, filename \in Filenames : FromCache(t, filename)
    \/ \E t \in Threads : FcLock(t)
    \/ \E t \in Threads : FcMiss(t)
    \/ \E t \in Threads : FcUnlock(t)

\* The scheduling of the goroutines inside FromCache: a goroutine that can
\* take its next step takes it (the loader's fetch returns, the deferred
\* Unlock runs), and a goroutine waiting in Lock gets the mutex when it is
\* released again and again (sync.Mutex hands the mutex to a starving waiter).
Fairness ==
    \A t \in Threads :
        /\ SF_vars(FcLock(t))
        /\ WF_vars(FfLoad(t))
        /\ WF_vars(FcMiss(t))
        /\ WF_vars(FcUnlock(t))

FairSpec == Init /\ [][CacheNext]_vars /\ Fairness

====
